---- MODULE Spec2Model ----
(***************************************************************************)
(* c23-syntax-diagrams: the rule registry, the diagram builder shim, the   *)
(* section index and the mount/render functions of c23-syntax-diagrams.mjs,*)
(* and the name filter of App.tsx.                                         *)
(*                                                                         *)
(* JavaScript values are modelled as records of one shape per sort, so     *)
(* that any two values of a sort can be compared:                          *)
(*   node     [k, s, n, c]   a railroad-diagrams object: its kind, its     *)
(*                           text, its numeric argument, its children      *)
(*   error    [name, msg]    a thrown value: its class and its message     *)
(*                           (a sequence of words)                         *)
(*   outcome  [t, v, e, news] the result of a call: "return" with value v  *)
(*                           or "throw" with error e; news counts the      *)
(*                           constructions with `new` made on the way      *)
(***************************************************************************)
EXTENDS Integers, Sequences, FiniteSets, TLC

VARIABLES
  build,    \* the build of @prantlf/railroad-diagrams that was imported
  pc,       \* "init" while the module body runs, "ready" once it is loaded
  rules,    \* the rule registry: the Map from rule name to factory
  dom,      \* the containers of the page: container id -> child blocks
  last,     \* the last render operation: its inputs and its outcome
  shim,     \* the last callOrNew call: its inputs and its outcome
  filt,     \* the App component: its query, a names list and its filtering
  ch        \* the last chain call: its inputs and the structure it built

vars == <<build, pc, rules, dom, last, shim, filt, ch>>

\* ------------------------------------------------------------------------
\* JavaScript values

NoNode == [k |-> "undefined", s |-> "", n |-> 0, c |-> <<>>]

NoError == [name |-> "", msg |-> <<>>]

Error(name, msg) == [name |-> name, msg |-> msg]

Return(v) == [t |-> "return", v |-> v, e |-> NoError, news |-> 0]

Throw(e) == [t |-> "throw", v |-> NoNode, e |-> e, news |-> 0]

\* The arguments of a primitive: its text, its number, its child nodes.
Args(s, n, c) == [s |-> s, n |-> n, c |-> c]

\* ------------------------------------------------------------------------
\* The external library, as the shim sees it (part_000 lines 6-13)

\* The object a primitive builds from its arguments.
RRNode(k, args) == [k |-> k, s |-> args.s, n |-> args.n, c |-> args.c]

\* The message of the TypeError a class constructor throws when it is
\* called without `new` (lines 12-13).
ClassCtorMessage(k) ==
  <<"Class", "constructor", k, "cannot", "be", "invoked", "without", "'new'">>

\* What a call of an export can do.  "returns": a factory function;
\* "class": an ES class constructor, which throws when called plainly;
\* the others fail for a reason that has nothing to do with `new`.
CallKinds ==
  {"returns", "class", "typeError", "errorAboutNew", "rangeError", "string"}

ConstructKinds == {"returns", "throws"}

\* Ctor(...args)
PlainCall(Ctor, args) ==
  CASE Ctor.call = "returns" -> Return(RRNode(Ctor.k, args))
    [] Ctor.call = "class" -> Throw(Error("TypeError", ClassCtorMessage(Ctor.k)))
    [] Ctor.call = "typeError" ->
         Throw(Error("TypeError", <<"items", "is", "not", "iterable">>))
    [] Ctor.call = "errorAboutNew" ->
         Throw(Error("Error", <<"cannot", "build", Ctor.k, "without", "'new'">>))
    [] Ctor.call = "rangeError" ->
         Throw(Error("RangeError", <<"Invalid", "array", "length">>))
    [] Ctor.call = "string" -> Throw(Error("string", <<>>))

\* new Ctor(...args)
Construct(Ctor, args) ==
  IF Ctor.new = "returns"
    THEN [Return(RRNode(Ctor.k, args)) EXCEPT !.news = 1]
    ELSE [Throw(Error("RangeError", <<"Invalid", "array", "length">>))
            EXCEPT !.news = 1]

\* RR.<k>: the export of the imported build.
RR(k) ==
  [k |-> k, call |-> IF build.exports = "class" THEN "class" ELSE "returns",
   new |-> "returns"]

\* ------------------------------------------------------------------------
\* Convenience wrappers (part_000 lines 16-40)

\* /without 'new'/.test(message): the two words, adjacent, anywhere.
TestWithoutNew(msg) ==
  \E i \in 1..(Len(msg) - 1) : msg[i] = "without" /\ msg[i + 1] = "'new'"

\* callOrNew retrying with new on any TypeError, whatever its message.
callOrNewAnyTypeError(Ctor, args) ==
  LET r == PlainCall(Ctor, args) IN
  IF r.t = "return" THEN r
  ELSE IF r.e.name = "TypeError"
         THEN Construct(Ctor, args)
         ELSE r

callOrNew(Ctor, args) ==
  LET r == PlainCall(Ctor, args) IN
  IF r.t = "return" THEN r
  ELSE IF r.e.name = "TypeError" /\ TestWithoutNew(r.e.msg)
         THEN Construct(Ctor, args)
         ELSE r

Diagram(a) == callOrNew(RR("Diagram"), Args("", 0, a)).v

Sequence(a) == callOrNew(RR("Sequence"), Args("", 0, a)).v

Choice(n, a) == callOrNew(RR("Choice"), Args("", n, a)).v

Optional(x) == callOrNew(RR("Optional"), Args("", 0, <<x>>)).v

OneOrMore(x) == callOrNew(RR("OneOrMore"), Args("", 0, <<x>>)).v

\* OneOrMore(item, rep): rep is drawn on the way back.
OneOrMoreRep(x, rep) == callOrNew(RR("OneOrMore"), Args("", 0, <<x, rep>>)).v

ZeroOrMore(x) == callOrNew(RR("ZeroOrMore"), Args("", 0, <<x>>)).v

Terminal(s) == callOrNew(RR("Terminal"), Args(s, 0, <<>>)).v

NonTerminal(s) == callOrNew(RR("NonTerminal"), Args(s, 0, <<>>)).v

Stack(a) == callOrNew(RR("Stack"), Args("", 0, a)).v

Comment(s) == callOrNew(RR("Comment"), Args(s, 0, <<>>)).v

T(s) == Terminal(s)

NT(s) == NonTerminal(s)

\* ------------------------------------------------------------------------
\* Grammar rules (diagram factories), part_000 lines 96-908

\* ops.map(T)
MapT(ops) == [i \in DOMAIN ops |-> T(ops[i])]

\* chain requiring at least one (op) BASE pair.
chainOneOrMore(base, ops) ==
  Sequence(<<
    NT(base),
    OneOrMore(Sequence(<<Choice(0, MapT(ops)), NT(base)>>))>>)

\* precedence-chain helper: BASE ( (op) BASE )*
chain(base, ops) ==
  Sequence(<<
    NT(base),
    ZeroOrMore(Sequence(<<Choice(0, MapT(ops)), NT(base)>>))>>)

\* rules.set("token", ...)  (lines 100-110)
rule_token ==
  Diagram(<<
    Choice(0, <<
      NT("keyword"),
      NT("identifier"),
      NT("constant"),
      NT("string-literal"),
      NT("punctuator")>>)>>)

\* rules.set("preprocessing-token", ...)  (lines 112-125)
rule_preprocessing_token ==
  Diagram(<<
    Choice(0, <<
      NT("header-name"),
      NT("identifier"),
      NT("pp-number"),
      NT("character-constant"),
      NT("string-literal"),
      NT("punctuator"),
      NT("universal-character-name"),
      NT("non-white-space-character")>>)>>)

\* rules.set("identifier", ...)  (lines 128-135)
rule_identifier ==
  Diagram(<<Sequence(<<NT("identifier-start"), ZeroOrMore(NT("identifier-continue"))>>)>>)

\* rules.set("universal-character-name", ...)  (lines 137-144)
rule_universal_character_name ==
  Diagram(<<
    Choice(0, <<
      Sequence(<<T("\\u"), NT("hex-quad")>>),
      Sequence(<<T("\\U"), NT("hex-quad"), NT("hex-quad")>>)>>)>>)

\* rules.set("constant", ...)  (lines 147-157)
rule_constant ==
  Diagram(<<
    Choice(0, <<
      NT("integer-constant"),
      NT("floating-constant"),
      NT("enumeration-constant"),
      NT("character-constant"),
      NT("predefined-constant")>>)>>)

\* rules.set("primary-expression", ...)  (lines 163-173)
rule_primary_expression ==
  Diagram(<<
    Choice(0, <<
      NT("identifier"),
      NT("constant"),
      NT("string-literal"),
      Sequence(<<T("("), NT("expression"), T(")")>>),
      NT("generic-selection")>>)>>)

\* rules.set("generic-selection", ...)  (lines 176-187)
rule_generic_selection ==
  Diagram(<<
    Sequence(<<
      T("_Generic"),
      T("("),
      NT("assignment-expression"),
      T(","),
      NT("generic-assoc-list"),
      T(")")>>)>>)

\* rules.set("generic-assoc-list", ...)  (lines 190-197)
rule_generic_assoc_list ==
  Diagram(<<
    Sequence(<<
      NT("generic-association"),
      ZeroOrMore(Sequence(<<T(","), NT("generic-association")>>))>>)>>)

\* rules.set("generic-association", ...)  (lines 200-207)
rule_generic_association ==
  Diagram(<<
    Choice(0, <<
      Sequence(<<NT("type-name"), T(":"), NT("assignment-expression")>>),
      Sequence(<<T("default"), T(":"), NT("assignment-expression")>>)>>)>>)

\* rules.set("argument-expression-list", ...)  (lines 210-217)
rule_argument_expression_list ==
  Diagram(<<
    Sequence(<<
      NT("assignment-expression"),
      ZeroOrMore(Sequence(<<T(","), NT("assignment-expression")>>))>>)>>)

\* rules.set("compound-literal", ...)  (lines 220-230)
rule_compound_literal ==
  Diagram(<<
    Sequence(<<
      T("("),
      Optional(NT("storage-class-specifiers")),
      NT("type-name"),
      T(")"),
      NT("braced-initializer")>>)>>)

\* rules.set("postfix-expression", ...)  (lines 234-251)
rule_postfix_expression ==
  LET postfixSuffix ==
        Choice(0, <<
          Sequence(<<T("["), NT("expression"), T("]")>>),
          Sequence(<<T("("), Optional(NT("argument-expression-list")), T(")")>>),
          Sequence(<<T("."), NT("identifier")>>),
          Sequence(<<T("->"), NT("identifier")>>),
          T("++"),
          T("--")>>)
  IN  Diagram(<<
        Sequence(<<
          Choice(0, <<NT("primary-expression"), NT("compound-literal")>>),
          ZeroOrMore(postfixSuffix)>>)>>)

\* rules.set("unary-operator", ...)  (lines 254-258)
rule_unary_operator ==
  Diagram(<<Choice(0, <<T("&"), T("*"), T("+"), T("-"), T("~"), T("!")>>)>>)

\* rules.set("cast-expression", ...)  (lines 262-269)
rule_cast_expression ==
  Diagram(<<
    Sequence(<<
      ZeroOrMore(Sequence(<<T("("), NT("type-name"), T(")")>>)),
      NT("unary-expression")>>)>>)

\* rules.set("unary-expression", ...)  (lines 275-290)
rule_unary_expression ==
  LET prefixOps ==
        ZeroOrMore(Choice(0, <<T("++"), T("--"), T("sizeof")>>))
      core ==
        Choice(0, <<
          NT("postfix-expression"),
          Sequence(<<NT("unary-operator"), NT("cast-expression")>>)>>)
  IN  Diagram(<<
        Choice(0, <<
          Sequence(<<prefixOps, core>>),
          Sequence(<<T("sizeof"), T("("), NT("type-name"), T(")")>>),
          Sequence(<<T("alignof"), T("("), NT("type-name"), T(")")>>)>>)>>)

\* multiplicative-expression with the operator % left out.
rule_multiplicative_expression_without_mod ==
  Diagram(<<chain("cast-expression", <<"*", "/">>)>>)

\* rules.set("multiplicative-expression", ...)  (lines 300-300)
rule_multiplicative_expression ==
  Diagram(<<chain("cast-expression", <<"*", "/", "%">>)>>)

\* rules.set("additive-expression", ...)  (lines 301-301)
rule_additive_expression ==
  Diagram(<<chain("multiplicative-expression", <<"+", "-">>)>>)

\* rules.set("shift-expression", ...)  (lines 302-302)
rule_shift_expression ==
  Diagram(<<chain("additive-expression", <<"<<", ">>">>)>>)

\* rules.set("relational-expression", ...)  (lines 303-303)
rule_relational_expression ==
  Diagram(<<chain("shift-expression", <<"<", ">", "<=", ">=">>)>>)

\* rules.set("equality-expression", ...)  (lines 304-304)
rule_equality_expression ==
  Diagram(<<chain("relational-expression", <<"==", "!=">>)>>)

\* rules.set("AND-expression", ...)  (lines 305-305)
rule_AND_expression ==
  Diagram(<<chain("equality-expression", <<"&">>)>>)

\* rules.set("exclusive-OR-expression", ...)  (lines 306-306)
rule_exclusive_OR_expression ==
  Diagram(<<chain("AND-expression", <<"^">>)>>)

\* rules.set("inclusive-OR-expression", ...)  (lines 307-307)
rule_inclusive_OR_expression ==
  Diagram(<<chain("exclusive-OR-expression", <<"|">>)>>)

\* rules.set("logical-AND-expression", ...)  (lines 308-308)
rule_logical_AND_expression ==
  Diagram(<<chain("inclusive-OR-expression", <<"&&">>)>>)

\* rules.set("logical-OR-expression", ...)  (lines 309-309)
rule_logical_OR_expression ==
  Diagram(<<chain("logical-AND-expression", <<"||">>)>>)

\* rules.set("conditional-expression", ...)  (lines 313-320)
rule_conditional_expression ==
  Diagram(<<
    Sequence(<<
      NT("logical-OR-expression"),
      Optional(Sequence(<<T("?"), NT("expression"), T(":"), NT("conditional-expression")>>))>>)>>)

\* rules.set("assignment-operator", ...)  (lines 323-330)
rule_assignment_operator ==
  Diagram(<<
    Choice(0, <<
      T("="),
      T("*="),
      T("/="),
      T("%="),
      T("+="),
      T("-="),
      T("<<="),
      T(">>="),
      T("&="),
      T("^="),
      T("|=")>>)>>)

\* rules.set("assignment-expression", ...)  (lines 334-341)
rule_assignment_expression ==
  Diagram(<<
    Choice(0, <<
      NT("conditional-expression"),
      Sequence(<<
        NT("unary-expression"),
        NT("assignment-operator"),
        NT("assignment-expression")>>)>>)>>)

\* rules.set("expression", ...)  (lines 344-351)
rule_expression ==
  Diagram(<<
    Sequence(<<
      NT("assignment-expression"),
      ZeroOrMore(Sequence(<<T(","), NT("assignment-expression")>>))>>)>>)

\* rules.set("constant-expression", ...)  (lines 354-354)
rule_constant_expression ==
  Diagram(<<NT("conditional-expression")>>)

\* rules.set("declaration", ...)  (lines 359-368)
rule_declaration ==
  Diagram(<<
    Choice(0, <<
      Sequence(<<NT("declaration-specifiers"), Optional(NT("init-declarator-list")), T(";")>>),
      Sequence(<<
        NT("attribute-specifier-sequence"),
        NT("declaration-specifiers"),
        NT("init-declarator-list"),
        T(";")>>),
      NT("static_assert-declaration"),
      NT("attribute-declaration")>>)>>)

\* rules.set("declaration-specifiers", ...)  (lines 370-377)
rule_declaration_specifiers ==
  Diagram(<<
    OneOrMoreRep(Sequence(<<NT("declaration-specifier"), Optional(NT("attribute-specifier-sequence"))>>), Comment("one or more"))>>)

\* rules.set("declaration-specifier", ...)  (lines 379-387)
rule_declaration_specifier ==
  Diagram(<<
    Choice(0, <<
      NT("storage-class-specifier"),
      NT("type-specifier-qualifier"),
      NT("function-specifier")>>)>>)

\* rules.set("init-declarator-list", ...)  (lines 389-396)
rule_init_declarator_list ==
  Diagram(<<
    Sequence(<<NT("init-declarator"), ZeroOrMore(Sequence(<<T(","), NT("init-declarator")>>))>>)>>)

\* rules.set("init-declarator", ...)  (lines 398-405)
rule_init_declarator ==
  Diagram(<<
    Choice(0, <<NT("declarator"), Sequence(<<NT("declarator"), T("="), NT("initializer")>>)>>)>>)

\* rules.set("storage-class-specifiers", ...)  (lines 408-410)
rule_storage_class_specifiers ==
  Diagram(<<OneOrMore(NT("storage-class-specifier"))>>)

\* rules.set("storage-class-specifier", ...)  (lines 412-416)
rule_storage_class_specifier ==
  Diagram(<<
    Choice(0, <<
      T("auto"),
      T("constexpr"),
      T("extern"),
      T("register"),
      T("static"),
      T("thread_local"),
      T("typedef")>>)>>)

\* rules.set("type-specifier-qualifier", ...)  (lines 418-422)
rule_type_specifier_qualifier ==
  Diagram(<<
    Choice(0, <<NT("type-specifier"), NT("type-qualifier"), NT("alignment-specifier")>>)>>)

\* rules.set("type-specifier", ...)  (lines 424-439)
rule_type_specifier ==
  Diagram(<<
    Choice(0, <<
      T("void"),
      T("char"),
      T("short"),
      T("int"),
      T("long"),
      T("float"),
      T("double"),
      T("signed"),
      T("unsigned"),
      Sequence(<<T("_BitInt"), T("("), NT("constant-expression"), T(")")>>),
      T("bool"),
      T("_Complex"),
      T("_Decimal32"),
      T("_Decimal64"),
      T("_Decimal128"),
      NT("atomic-type-specifier"),
      NT("struct-or-union-specifier"),
      NT("enum-specifier"),
      NT("typedef-name"),
      NT("typeof-specifier")>>)>>)

\* rules.set("struct-or-union-specifier", ...)  (lines 441-450)
rule_struct_or_union_specifier ==
  Diagram(<<
    Choice(0, <<
      Sequence(<<
        NT("struct-or-union"),
        Optional(NT("attribute-specifier-sequence")),
        Optional(NT("identifier")),
        T("{"),
        NT("member-declaration-list"),
        T("}")>>),
      Sequence(<<
        NT("struct-or-union"),
        Optional(NT("attribute-specifier-sequence")),
        NT("identifier")>>)>>)>>)

\* rules.set("struct-or-union", ...)  (lines 452-452)
rule_struct_or_union ==
  Diagram(<<Choice(0, <<T("struct"), T("union")>>)>>)

\* rules.set("member-declaration-list", ...)  (lines 454-456)
rule_member_declaration_list ==
  Diagram(<<OneOrMore(NT("member-declaration"))>>)

\* rules.set("member-declaration", ...)  (lines 458-467)
rule_member_declaration ==
  Diagram(<<
    Choice(0, <<
      Sequence(<<
        Optional(NT("attribute-specifier-sequence")),
        NT("specifier-qualifier-list"),
        Optional(NT("member-declarator-list")),
        T(";")>>),
      NT("static_assert-declaration")>>)>>)

\* rules.set("specifier-qualifier-list", ...)  (lines 469-473)
rule_specifier_qualifier_list ==
  Diagram(<<
    OneOrMore(Sequence(<<NT("type-specifier-qualifier"), Optional(NT("attribute-specifier-sequence"))>>))>>)

\* rules.set("member-declarator-list", ...)  (lines 475-482)
rule_member_declarator_list ==
  Diagram(<<
    Sequence(<<
      NT("member-declarator"),
      ZeroOrMore(Sequence(<<T(","), NT("member-declarator")>>))>>)>>)

\* rules.set("member-declarator", ...)  (lines 484-491)
rule_member_declarator ==
  Diagram(<<
    Choice(0, <<
      NT("declarator"),
      Sequence(<<Optional(NT("declarator")), T(":"), NT("constant-expression")>>)>>)>>)

\* rules.set("enum-specifier", ...)  (lines 493-505)
rule_enum_specifier ==
  Diagram(<<
    Choice(0, <<
      Sequence(<<
        T("enum"),
        Optional(NT("attribute-specifier-sequence")),
        Optional(NT("identifier")),
        Optional(NT("enum-type-specifier")),
        T("{"),
        NT("enumerator-list"),
        T("}")>>),
      Sequence(<<
        T("enum"),
        Optional(NT("attribute-specifier-sequence")),
        Optional(NT("identifier")),
        Optional(NT("enum-type-specifier")),
        T("{"),
        NT("enumerator-list"),
        T(","),
        T("}")>>),
      Sequence(<<T("enum"), NT("identifier"), Optional(NT("enum-type-specifier"))>>)>>)>>)

\* rules.set("enumerator-list", ...)  (lines 507-509)
rule_enumerator_list ==
  Diagram(<<
    Sequence(<<NT("enumerator"), ZeroOrMore(Sequence(<<T(","), NT("enumerator")>>))>>)>>)

\* rules.set("enumerator", ...)  (lines 511-518)
rule_enumerator ==
  Diagram(<<
    Choice(0, <<
      Sequence(<<NT("enumeration-constant"), Optional(NT("attribute-specifier-sequence"))>>),
      Sequence(<<
        NT("enumeration-constant"),
        Optional(NT("attribute-specifier-sequence")),
        T("="),
        NT("constant-expression")>>)>>)>>)

\* rules.set("enum-type-specifier", ...)  (lines 520-520)
rule_enum_type_specifier ==
  Diagram(<<Sequence(<<T(":"), NT("specifier-qualifier-list")>>)>>)

\* rules.set("atomic-type-specifier", ...)  (lines 522-524)
rule_atomic_type_specifier ==
  Diagram(<<Sequence(<<T("_Atomic"), T("("), NT("type-name"), T(")")>>)>>)

\* rules.set("typeof-specifier", ...)  (lines 526-533)
rule_typeof_specifier ==
  Diagram(<<
    Choice(0, <<
      Sequence(<<T("typeof"), T("("), NT("typeof-specifier-argument"), T(")")>>),
      Sequence(<<T("typeof_unqual"), T("("), NT("typeof-specifier-argument"), T(")")>>)>>)>>)

\* rules.set("typeof-specifier-argument", ...)  (lines 535-537)
rule_typeof_specifier_argument ==
  Diagram(<<Choice(0, <<NT("expression"), NT("type-name")>>)>>)

\* rules.set("type-qualifier", ...)  (lines 539-541)
rule_type_qualifier ==
  Diagram(<<Choice(0, <<T("const"), T("restrict"), T("volatile"), T("_Atomic")>>)>>)

\* rules.set("type-qualifier-list", ...)  (lines 543-545)
rule_type_qualifier_list ==
  Diagram(<<OneOrMore(NT("type-qualifier"))>>)

\* rules.set("function-specifier", ...)  (lines 547-549)
rule_function_specifier ==
  Diagram(<<Choice(0, <<T("inline"), T("_Noreturn")>>)>>)

\* rules.set("alignment-specifier", ...)  (lines 551-558)
rule_alignment_specifier ==
  Diagram(<<
    Choice(0, <<
      Sequence(<<T("alignas"), T("("), NT("type-name"), T(")")>>),
      Sequence(<<T("alignas"), T("("), NT("constant-expression"), T(")")>>)>>)>>)

\* rules.set("declarator", ...)  (lines 561-563)
rule_declarator ==
  Diagram(<<Sequence(<<Optional(NT("pointer")), NT("direct-declarator")>>)>>)

\* rules.set("pointer", ...)  (lines 566-572)
rule_pointer ==
  Diagram(<<
    OneOrMore(Sequence(<<
      T("*"),
      Optional(NT("attribute-specifier-sequence")),
      Optional(NT("type-qualifier-list"))>>))>>)

\* rules.set("direct-declarator", ...)  (lines 576-599)
rule_direct_declarator ==
  LET base ==
        Choice(0, <<
          Sequence(<<NT("identifier"), Optional(NT("attribute-specifier-sequence"))>>),
          Sequence(<<T("("), NT("declarator"), T(")")>>)>>)
      arrayBracket ==
        Choice(0, <<
          Sequence(<<
            Optional(NT("type-qualifier-list")),
            Optional(NT("assignment-expression"))>>),
          Sequence(<<
            T("static"),
            Optional(NT("type-qualifier-list")),
            NT("assignment-expression")>>),
          Sequence(<<NT("type-qualifier-list"), T("static"), NT("assignment-expression")>>),
          Sequence(<<Optional(NT("type-qualifier-list")), T("*")>>)>>)
      arraySuffix ==
        Sequence(<<T("["), arrayBracket, T("]"), Optional(NT("attribute-specifier-sequence"))>>)
      funcSuffix ==
        Sequence(<<
          T("("),
          Optional(NT("parameter-type-list")),
          T(")"),
          Optional(NT("attribute-specifier-sequence"))>>)
  IN  Diagram(<<Sequence(<<base, ZeroOrMore(Choice(0, <<arraySuffix, funcSuffix>>))>>)>>)

\* rules.set("parameter-type-list", ...)  (lines 601-609)
rule_parameter_type_list ==
  Diagram(<<
    Choice(0, <<
      NT("parameter-list"),
      Sequence(<<NT("parameter-list"), T(","), T("...")>>),
      T("...")>>)>>)

\* rules.set("parameter-list", ...)  (lines 611-618)
rule_parameter_list ==
  Diagram(<<
    Sequence(<<
      NT("parameter-declaration"),
      ZeroOrMore(Sequence(<<T(","), NT("parameter-declaration")>>))>>)>>)

\* rules.set("parameter-declaration", ...)  (lines 620-627)
rule_parameter_declaration ==
  Diagram(<<
    Choice(0, <<
      Sequence(<<
        Optional(NT("attribute-specifier-sequence")),
        NT("declaration-specifiers"),
        NT("declarator")>>),
      Sequence(<<
        Optional(NT("attribute-specifier-sequence")),
        NT("declaration-specifiers"),
        Optional(NT("abstract-declarator"))>>)>>)>>)

\* rules.set("type-name", ...)  (lines 629-631)
rule_type_name ==
  Diagram(<<Sequence(<<NT("specifier-qualifier-list"), Optional(NT("abstract-declarator"))>>)>>)

\* rules.set("abstract-declarator", ...)  (lines 633-640)
rule_abstract_declarator ==
  Diagram(<<
    Choice(0, <<
      NT("pointer"),
      Sequence(<<Optional(NT("pointer")), NT("direct-abstract-declarator")>>)>>)>>)

\* rules.set("direct-abstract-declarator", ...)  (lines 644-661)
rule_direct_abstract_declarator ==
  LET base ==
        Choice(0, <<
          Sequence(<<T("("), NT("abstract-declarator"), T(")")>>),
          Comment("or empty base for suffix-only forms")>>)
      arrayBracket ==
        Choice(0, <<
          Sequence(<<
            Optional(NT("type-qualifier-list")),
            Optional(NT("assignment-expression"))>>),
          Sequence(<<
            T("static"),
            Optional(NT("type-qualifier-list")),
            NT("assignment-expression")>>),
          Sequence(<<NT("type-qualifier-list"), T("static"), NT("assignment-expression")>>),
          Sequence(<<T("*")>>)>>)
      arraySuffix ==
        Sequence(<<T("["), arrayBracket, T("]"), Optional(NT("attribute-specifier-sequence"))>>)
      funcSuffix ==
        Sequence(<<
          T("("),
          Optional(NT("parameter-type-list")),
          T(")"),
          Optional(NT("attribute-specifier-sequence"))>>)
  IN  Diagram(<<Sequence(<<base, ZeroOrMore(Choice(0, <<arraySuffix, funcSuffix>>))>>)>>)

\* rules.set("braced-initializer", ...)  (lines 663-671)
rule_braced_initializer ==
  Diagram(<<
    Choice(0, <<
      Sequence(<<T("{"), T("}")>>),
      Sequence(<<T("{"), NT("initializer-list"), T("}")>>),
      Sequence(<<T("{"), NT("initializer-list"), T(","), T("}")>>)>>)>>)

\* rules.set("initializer", ...)  (lines 673-675)
rule_initializer ==
  Diagram(<<Choice(0, <<NT("assignment-expression"), NT("braced-initializer")>>)>>)

\* rules.set("initializer-list", ...)  (lines 677-685)
rule_initializer_list ==
  Diagram(<<
    Sequence(<<
      Optional(NT("designation")),
      NT("initializer"),
      ZeroOrMore(Sequence(<<T(","), Optional(NT("designation")), NT("initializer")>>))>>)>>)

\* rules.set("designation", ...)  (lines 687-689)
rule_designation ==
  Diagram(<<Sequence(<<NT("designator-list"), T("=")>>)>>)

\* rules.set("designator-list", ...)  (lines 691-693)
rule_designator_list ==
  Diagram(<<OneOrMore(NT("designator"))>>)

\* rules.set("designator", ...)  (lines 695-702)
rule_designator ==
  Diagram(<<
    Choice(0, <<
      Sequence(<<T("["), NT("constant-expression"), T("]")>>),
      Sequence(<<T("."), NT("identifier")>>)>>)>>)

\* rules.set("statement", ...)  (lines 706-708)
rule_statement ==
  Diagram(<<Choice(0, <<NT("labeled-statement"), NT("unlabeled-statement")>>)>>)

\* rules.set("label", ...)  (lines 710-718)
rule_label ==
  Diagram(<<
    Choice(0, <<
      Sequence(<<Optional(NT("attribute-specifier-sequence")), NT("identifier"), T(":")>>),
      Sequence(<<
        Optional(NT("attribute-specifier-sequence")),
        T("case"),
        NT("constant-expression"),
        T(":")>>),
      Sequence(<<Optional(NT("attribute-specifier-sequence")), T("default"), T(":")>>)>>)>>)

\* rules.set("labeled-statement", ...)  (lines 720-722)
rule_labeled_statement ==
  Diagram(<<Sequence(<<NT("label"), NT("statement")>>)>>)

\* rules.set("unlabeled-statement", ...)  (lines 724-732)
rule_unlabeled_statement ==
  Diagram(<<
    Choice(0, <<
      NT("expression-statement"),
      Sequence(<<Optional(NT("attribute-specifier-sequence")), NT("primary-block")>>),
      Sequence(<<Optional(NT("attribute-specifier-sequence")), NT("jump-statement")>>)>>)>>)

\* rules.set("primary-block", ...)  (lines 734-736)
rule_primary_block ==
  Diagram(<<
    Choice(0, <<NT("compound-statement"), NT("selection-statement"), NT("iteration-statement")>>)>>)

\* rules.set("compound-statement", ...)  (lines 738-740)
rule_compound_statement ==
  Diagram(<<Sequence(<<T("{"), Optional(NT("block-item-list")), T("}")>>)>>)

\* rules.set("block-item-list", ...)  (lines 742-744)
rule_block_item_list ==
  Diagram(<<OneOrMore(NT("block-item"))>>)

\* rules.set("block-item", ...)  (lines 746-748)
rule_block_item ==
  Diagram(<<Choice(0, <<NT("declaration"), NT("unlabeled-statement"), NT("label")>>)>>)

\* rules.set("expression-statement", ...)  (lines 750-757)
rule_expression_statement ==
  Diagram(<<
    Choice(0, <<
      Sequence(<<Optional(NT("expression")), T(";")>>),
      Sequence(<<NT("attribute-specifier-sequence"), NT("expression"), T(";")>>)>>)>>)

\* rules.set("selection-statement", ...)  (lines 759-767)
rule_selection_statement ==
  Diagram(<<
    Choice(0, <<
      Sequence(<<T("if"), T("("), NT("expression"), T(")"), NT("secondary-block")>>),
      Sequence(<<
        T("if"),
        T("("),
        NT("expression"),
        T(")"),
        NT("secondary-block"),
        T("else"),
        NT("secondary-block")>>),
      Sequence(<<T("switch"), T("("), NT("expression"), T(")"), NT("secondary-block")>>)>>)>>)

\* rules.set("iteration-statement", ...)  (lines 769-778)
rule_iteration_statement ==
  Diagram(<<
    Choice(0, <<
      Sequence(<<T("while"), T("("), NT("expression"), T(")"), NT("secondary-block")>>),
      Sequence(<<
        T("do"),
        NT("secondary-block"),
        T("while"),
        T("("),
        NT("expression"),
        T(")"),
        T(";")>>),
      Sequence(<<
        T("for"),
        T("("),
        Optional(NT("expression")),
        T(";"),
        Optional(NT("expression")),
        T(";"),
        Optional(NT("expression")),
        T(")"),
        NT("secondary-block")>>),
      Sequence(<<
        T("for"),
        T("("),
        NT("declaration"),
        Optional(NT("expression")),
        T(";"),
        Optional(NT("expression")),
        T(")"),
        NT("secondary-block")>>)>>)>>)

\* rules.set("jump-statement", ...)  (lines 780-789)
rule_jump_statement ==
  Diagram(<<
    Choice(0, <<
      Sequence(<<T("goto"), NT("identifier"), T(";")>>),
      Sequence(<<T("continue"), T(";")>>),
      Sequence(<<T("break"), T(";")>>),
      Sequence(<<T("return"), Optional(NT("expression")), T(";")>>)>>)>>)

\* rules.set("translation-unit", ...)  (lines 793-795)
rule_translation_unit ==
  Diagram(<<OneOrMore(NT("external-declaration"))>>)

\* rules.set("external-declaration", ...)  (lines 797-799)
rule_external_declaration ==
  Diagram(<<Choice(0, <<NT("function-definition"), NT("declaration")>>)>>)

\* rules.set("function-definition", ...)  (lines 801-810)
rule_function_definition ==
  Diagram(<<
    Sequence(<<
      Optional(NT("attribute-specifier-sequence")),
      NT("declaration-specifiers"),
      NT("declarator"),
      NT("function-body")>>)>>)

\* rules.set("function-body", ...)  (lines 812-814)
rule_function_body ==
  Diagram(<<NT("compound-statement")>>)

\* rules.set("preprocessing-file", ...)  (lines 818-820)
rule_preprocessing_file ==
  Diagram(<<Optional(NT("group"))>>)

\* rules.set("group", ...)  (lines 822-824)
rule_group ==
  Diagram(<<OneOrMore(NT("group-part"))>>)

\* rules.set("group-part", ...)  (lines 826-835)
rule_group_part ==
  Diagram(<<
    Choice(0, <<
      NT("if-section"),
      NT("control-line"),
      NT("text-line"),
      Sequence(<<T("#"), NT("non-directive")>>)>>)>>)

\* rules.set("if-section", ...)  (lines 837-846)
rule_if_section ==
  Diagram(<<
    Sequence(<<
      NT("if-group"),
      Optional(NT("elif-groups")),
      Optional(NT("else-group")),
      NT("endif-line")>>)>>)

\* rules.set("if-group", ...)  (lines 848-856)
rule_if_group ==
  Diagram(<<
    Choice(0, <<
      Sequence(<<
        T("#"),
        T("if"),
        NT("constant-expression"),
        NT("new-line"),
        Optional(NT("group"))>>),
      Sequence(<<T("#"), T("ifdef"), NT("identifier"), NT("new-line"), Optional(NT("group"))>>),
      Sequence(<<T("#"), T("ifndef"), NT("identifier"), NT("new-line"), Optional(NT("group"))>>)>>)>>)

\* rules.set("elif-groups", ...)  (lines 858-858)
rule_elif_groups ==
  Diagram(<<OneOrMore(NT("elif-group"))>>)

\* rules.set("elif-group", ...)  (lines 860-868)
rule_elif_group ==
  Diagram(<<
    Choice(0, <<
      Sequence(<<
        T("#"),
        T("elif"),
        NT("constant-expression"),
        NT("new-line"),
        Optional(NT("group"))>>),
      Sequence(<<T("#"), T("elifdef"), NT("identifier"), NT("new-line"), Optional(NT("group"))>>),
      Sequence(<<
        T("#"),
        T("elifndef"),
        NT("identifier"),
        NT("new-line"),
        Optional(NT("group"))>>)>>)>>)

\* rules.set("else-group", ...)  (lines 870-872)
rule_else_group ==
  Diagram(<<Sequence(<<T("#"), T("else"), NT("new-line"), Optional(NT("group"))>>)>>)

\* rules.set("endif-line", ...)  (lines 874-876)
rule_endif_line ==
  Diagram(<<Sequence(<<T("#"), T("endif"), NT("new-line")>>)>>)

\* rules.set("control-line", ...)  (lines 878-892)
rule_control_line ==
  Diagram(<<
    Choice(0, <<
      Sequence(<<T("#"), T("include"), NT("pp-tokens"), NT("new-line")>>),
      Sequence(<<T("#"), T("embed"), NT("pp-tokens"), NT("new-line")>>),
      Sequence(<<T("#"), T("define"), NT("identifier"), NT("replacement-list"), NT("new-line")>>),
      Sequence(<<T("#"), T("undef"), NT("identifier"), NT("new-line")>>),
      Sequence(<<T("#"), T("line"), NT("pp-tokens"), NT("new-line")>>),
      Sequence(<<T("#"), T("error"), Optional(NT("pp-tokens")), NT("new-line")>>),
      Sequence(<<T("#"), T("warning"), Optional(NT("pp-tokens")), NT("new-line")>>),
      Sequence(<<T("#"), T("pragma"), Optional(NT("pp-tokens")), NT("new-line")>>),
      Sequence(<<T("#"), NT("new-line")>>)>>)>>)

\* rules.set("text-line", ...)  (lines 894-896)
rule_text_line ==
  Diagram(<<Sequence(<<Optional(NT("pp-tokens")), NT("new-line")>>)>>)

\* rules.set("non-directive", ...)  (lines 898-900)
rule_non_directive ==
  Diagram(<<Sequence(<<NT("pp-tokens"), NT("new-line")>>)>>)

\* rules.set("pp-tokens", ...)  (lines 902-904)
rule_pp_tokens ==
  Diagram(<<OneOrMore(NT("preprocessing-token"))>>)

\* rules.set("replacement-list", ...)  (lines 906-908)
rule_replacement_list ==
  Diagram(<<Optional(NT("pp-tokens"))>>)

\* The registry keys, in registration order.
RuleNames ==
  << "token", "preprocessing-token", "identifier",
     "universal-character-name", "constant", "primary-expression",
     "generic-selection", "generic-assoc-list", "generic-association",
     "argument-expression-list", "compound-literal", "postfix-expression",
     "unary-operator", "cast-expression", "unary-expression",
     "multiplicative-expression", "additive-expression", "shift-expression",
     "relational-expression", "equality-expression", "AND-expression",
     "exclusive-OR-expression", "inclusive-OR-expression",
     "logical-AND-expression", "logical-OR-expression",
     "conditional-expression", "assignment-operator",
     "assignment-expression", "expression", "constant-expression",
     "declaration", "declaration-specifiers", "declaration-specifier",
     "init-declarator-list", "init-declarator", "storage-class-specifiers",
     "storage-class-specifier", "type-specifier-qualifier", "type-specifier",
     "struct-or-union-specifier", "struct-or-union",
     "member-declaration-list", "member-declaration",
     "specifier-qualifier-list", "member-declarator-list",
     "member-declarator", "enum-specifier", "enumerator-list", "enumerator",
     "enum-type-specifier", "atomic-type-specifier", "typeof-specifier",
     "typeof-specifier-argument", "type-qualifier", "type-qualifier-list",
     "function-specifier", "alignment-specifier", "declarator", "pointer",
     "direct-declarator", "parameter-type-list", "parameter-list",
     "parameter-declaration", "type-name", "abstract-declarator",
     "direct-abstract-declarator", "braced-initializer", "initializer",
     "initializer-list", "designation", "designator-list", "designator",
     "statement", "label", "labeled-statement", "unlabeled-statement",
     "primary-block", "compound-statement", "block-item-list", "block-item",
     "expression-statement", "selection-statement", "iteration-statement",
     "jump-statement", "translation-unit", "external-declaration",
     "function-definition", "function-body", "preprocessing-file", "group",
     "group-part", "if-section", "if-group", "elif-groups", "elif-group",
     "else-group", "endif-line", "control-line", "text-line",
     "non-directive", "pp-tokens", "replacement-list" >>

Factory(name) ==
  CASE name = "token" -> rule_token
    [] name = "preprocessing-token" -> rule_preprocessing_token
    [] name = "identifier" -> rule_identifier
    [] name = "universal-character-name" -> rule_universal_character_name
    [] name = "constant" -> rule_constant
    [] name = "primary-expression" -> rule_primary_expression
    [] name = "generic-selection" -> rule_generic_selection
    [] name = "generic-assoc-list" -> rule_generic_assoc_list
    [] name = "generic-association" -> rule_generic_association
    [] name = "argument-expression-list" -> rule_argument_expression_list
    [] name = "compound-literal" -> rule_compound_literal
    [] name = "postfix-expression" -> rule_postfix_expression
    [] name = "unary-operator" -> rule_unary_operator
    [] name = "cast-expression" -> rule_cast_expression
    [] name = "unary-expression" -> rule_unary_expression
    [] name = "multiplicative-expression" -> rule_multiplicative_expression
    [] name = "additive-expression" -> rule_additive_expression
    [] name = "shift-expression" -> rule_shift_expression
    [] name = "relational-expression" -> rule_relational_expression
    [] name = "equality-expression" -> rule_equality_expression
    [] name = "AND-expression" -> rule_AND_expression
    [] name = "exclusive-OR-expression" -> rule_exclusive_OR_expression
    [] name = "inclusive-OR-expression" -> rule_inclusive_OR_expression
    [] name = "logical-AND-expression" -> rule_logical_AND_expression
    [] name = "logical-OR-expression" -> rule_logical_OR_expression
    [] name = "conditional-expression" -> rule_conditional_expression
    [] name = "assignment-operator" -> rule_assignment_operator
    [] name = "assignment-expression" -> rule_assignment_expression
    [] name = "expression" -> rule_expression
    [] name = "constant-expression" -> rule_constant_expression
    [] name = "declaration" -> rule_declaration
    [] name = "declaration-specifiers" -> rule_declaration_specifiers
    [] name = "declaration-specifier" -> rule_declaration_specifier
    [] name = "init-declarator-list" -> rule_init_declarator_list
    [] name = "init-declarator" -> rule_init_declarator
    [] name = "storage-class-specifiers" -> rule_storage_class_specifiers
    [] name = "storage-class-specifier" -> rule_storage_class_specifier
    [] name = "type-specifier-qualifier" -> rule_type_specifier_qualifier
    [] name = "type-specifier" -> rule_type_specifier
    [] name = "struct-or-union-specifier" -> rule_struct_or_union_specifier
    [] name = "struct-or-union" -> rule_struct_or_union
    [] name = "member-declaration-list" -> rule_member_declaration_list
    [] name = "member-declaration" -> rule_member_declaration
    [] name = "specifier-qualifier-list" -> rule_specifier_qualifier_list
    [] name = "member-declarator-list" -> rule_member_declarator_list
    [] name = "member-declarator" -> rule_member_declarator
    [] name = "enum-specifier" -> rule_enum_specifier
    [] name = "enumerator-list" -> rule_enumerator_list
    [] name = "enumerator" -> rule_enumerator
    [] name = "enum-type-specifier" -> rule_enum_type_specifier
    [] name = "atomic-type-specifier" -> rule_atomic_type_specifier
    [] name = "typeof-specifier" -> rule_typeof_specifier
    [] name = "typeof-specifier-argument" -> rule_typeof_specifier_argument
    [] name = "type-qualifier" -> rule_type_qualifier
    [] name = "type-qualifier-list" -> rule_type_qualifier_list
    [] name = "function-specifier" -> rule_function_specifier
    [] name = "alignment-specifier" -> rule_alignment_specifier
    [] name = "declarator" -> rule_declarator
    [] name = "pointer" -> rule_pointer
    [] name = "direct-declarator" -> rule_direct_declarator
    [] name = "parameter-type-list" -> rule_parameter_type_list
    [] name = "parameter-list" -> rule_parameter_list
    [] name = "parameter-declaration" -> rule_parameter_declaration
    [] name = "type-name" -> rule_type_name
    [] name = "abstract-declarator" -> rule_abstract_declarator
    [] name = "direct-abstract-declarator" -> rule_direct_abstract_declarator
    [] name = "braced-initializer" -> rule_braced_initializer
    [] name = "initializer" -> rule_initializer
    [] name = "initializer-list" -> rule_initializer_list
    [] name = "designation" -> rule_designation
    [] name = "designator-list" -> rule_designator_list
    [] name = "designator" -> rule_designator
    [] name = "statement" -> rule_statement
    [] name = "label" -> rule_label
    [] name = "labeled-statement" -> rule_labeled_statement
    [] name = "unlabeled-statement" -> rule_unlabeled_statement
    [] name = "primary-block" -> rule_primary_block
    [] name = "compound-statement" -> rule_compound_statement
    [] name = "block-item-list" -> rule_block_item_list
    [] name = "block-item" -> rule_block_item
    [] name = "expression-statement" -> rule_expression_statement
    [] name = "selection-statement" -> rule_selection_statement
    [] name = "iteration-statement" -> rule_iteration_statement
    [] name = "jump-statement" -> rule_jump_statement
    [] name = "translation-unit" -> rule_translation_unit
    [] name = "external-declaration" -> rule_external_declaration
    [] name = "function-definition" -> rule_function_definition
    [] name = "function-body" -> rule_function_body
    [] name = "preprocessing-file" -> rule_preprocessing_file
    [] name = "group" -> rule_group
    [] name = "group-part" -> rule_group_part
    [] name = "if-section" -> rule_if_section
    [] name = "if-group" -> rule_if_group
    [] name = "elif-groups" -> rule_elif_groups
    [] name = "elif-group" -> rule_elif_group
    [] name = "else-group" -> rule_else_group
    [] name = "endif-line" -> rule_endif_line
    [] name = "control-line" -> rule_control_line
    [] name = "text-line" -> rule_text_line
    [] name = "non-directive" -> rule_non_directive
    [] name = "pp-tokens" -> rule_pp_tokens
    [] name = "replacement-list" -> rule_replacement_list

SectionOrder ==
  << "lexical", "expressions", "declarations", "statements", "external",
     "preprocessor" >>

\* renderRuleList(byName("lexical"), rules, [...])  (lines 915-921)
lexicalNames ==
  << "token", "preprocessing-token", "identifier",
     "universal-character-name", "constant" >>

\* renderRuleList(byName("expressions"), rules, [...])  (lines 923-947)
expressionsNames ==
  << "primary-expression", "generic-selection", "generic-assoc-list",
     "generic-association", "postfix-expression", "unary-operator",
     "unary-expression", "cast-expression", "multiplicative-expression",
     "additive-expression", "shift-expression", "relational-expression",
     "equality-expression", "AND-expression", "exclusive-OR-expression",
     "inclusive-OR-expression", "logical-AND-expression",
     "logical-OR-expression", "conditional-expression",
     "assignment-operator", "assignment-expression", "expression",
     "constant-expression" >>

\* renderRuleList(byName("declarations"), rules, [...])  (lines 949-987)
declarationsNames ==
  << "declaration", "declaration-specifiers", "declaration-specifier",
     "init-declarator-list", "init-declarator", "storage-class-specifiers",
     "storage-class-specifier", "type-specifier-qualifier", "type-specifier",
     "struct-or-union-specifier", "member-declaration-list",
     "member-declaration", "specifier-qualifier-list", "enum-specifier",
     "enumerator-list", "enumerator", "atomic-type-specifier",
     "typeof-specifier", "type-qualifier", "type-qualifier-list",
     "function-specifier", "alignment-specifier", "declarator", "pointer",
     "direct-declarator", "parameter-type-list", "parameter-list",
     "parameter-declaration", "type-name", "abstract-declarator",
     "direct-abstract-declarator", "braced-initializer", "initializer",
     "initializer-list", "designation", "designator-list", "designator" >>

\* renderRuleList(byName("statements"), rules, [...])  (lines 989-1001)
statementsNames ==
  << "statement", "label", "labeled-statement", "unlabeled-statement",
     "compound-statement", "block-item-list", "block-item",
     "expression-statement", "selection-statement", "iteration-statement",
     "jump-statement" >>

\* The names of section "external" with one of them misspelt.
externalNamesMisspelt ==
  << "translation-unit", "external-declaration", "function-definition",
     "function-boby" >>

\* renderRuleList(byName("external"), rules, [...])  (lines 1003-1008)
externalNames ==
  << "translation-unit", "external-declaration", "function-definition",
     "function-body" >>

\* renderRuleList(byName("preprocessor"), rules, [...])  (lines 1010-1025)
preprocessorNames ==
  << "preprocessing-file", "group", "group-part", "if-section", "if-group",
     "elif-groups", "elif-group", "else-group", "endif-line", "control-line",
     "text-line", "non-directive", "pp-tokens", "replacement-list" >>

SectionRules(section) ==
  CASE section = "lexical" -> lexicalNames
    [] section = "expressions" -> expressionsNames
    [] section = "declarations" -> declarationsNames
    [] section = "statements" -> statementsNames
    [] section = "external" -> externalNames
    [] section = "preprocessor" -> preprocessorNames

\* ------------------------------------------------------------------------
\* Values a factory may hand to mountRule as `diagram`

\* diagram.toSVG: not a function, or a function that returns a string, a
\* DOM node or something else, or that throws an Error or a bare value.
SvgKinds ==
  {"absent", "string", "node", "other", "throwsError", "throwsValue"}

\* diagram.toString: not a function, returns markup, or throws.
ToStringKinds == {"absent", "string", "throws"}

\* diagram.addTo: not a function, attaches the graphic, or throws.
AddToKinds == {"absent", "attaches", "throws"}

JsValue(kind, toSVG, toString, addTo, tree) ==
  [kind |-> kind, toSVG |-> toSVG, toString |-> toString, addTo |-> addTo,
   tree |-> tree]

JsNull == JsValue("null", "absent", "absent", "absent", NoNode)

JsUndefined == JsValue("undefined", "absent", "absent", "absent", NoNode)

\* The Diagram object of the imported build: the tree it was built from
\* and the exports that build gives it.
DiagramObject(tree) ==
  JsValue("object", build.toSVG, build.toString, build.addTo, tree)

\* words.join(" ")
RECURSIVE JoinWords(_)
JoinWords(w) ==
  IF w = <<>> THEN ""
  ELSE IF Len(w) = 1 THEN w[1]
  ELSE w[1] \o " " \o JoinWords(Tail(w))

ErrorClasses == {"Error", "TypeError", "RangeError"}

\* `${e?.message ?? String(e)}`: the message of an Error; a thrown string
\* or null has no message and is converted by String.
ErrorText(e) ==
  IF e.name \in ErrorClasses THEN JoinWords(e.msg)
  ELSE IF e.name = "null" THEN "null"
  ELSE JoinWords(e.msg)

\* ------------------------------------------------------------------------
\* Rendering helpers (part_000 lines 44-92)

\* The content of the svgwrap element: markup set through innerHTML
\* (form "html"), an attached node (form "node") or textContent (form
\* "text"); via names the export that produced the graphic of tree.
Content(via, form, text, tree) ==
  [via |-> via, form |-> form, text |-> text, tree |-> tree]

TextContent(text) == Content("none", "text", text, NoNode)

Exported(c) == [t |-> "return", c |-> c, e |-> NoError]

ExportThrew(e) == [t |-> "throw", c |-> TextContent(""), e |-> e]

\* The try block trying the next export when one throws.
ExportFallback(diagram) ==
  IF diagram.kind # "object"
    THEN ExportThrew(Error("TypeError",
           <<"Cannot", "read", "properties", "of", diagram.kind,
             "(reading", "'toSVG')">>))
  ELSE IF diagram.toSVG \in {"string", "node"}
    THEN Exported(Content("toSVG", IF diagram.toSVG = "string" THEN "html" ELSE "node",
                          "", diagram.tree))
  ELSE IF diagram.toSVG = "other"
    THEN Exported(TextContent("toSVG() returned an unexpected value."))
  ELSE IF diagram.toString = "string"
    THEN Exported(Content("toString", "html", "", diagram.tree))
  ELSE IF diagram.addTo = "attaches"
    THEN Exported(Content("addTo", "node", "", diagram.tree))
  ELSE IF diagram.toSVG = "absent" /\ diagram.toString = "absent"
          /\ diagram.addTo = "absent"
    THEN Exported(TextContent(
           "Diagram object does not support toSVG/toString/addTo in this build."))
  ELSE ExportThrew(Error("Error", <<"addTo", "failed">>))

\* The try block taking a node returned by toSVG for an unexpected value.
ExportMarkupOnly(diagram) ==
  IF diagram.kind # "object"
    THEN ExportThrew(Error("TypeError",
           <<"Cannot", "read", "properties", "of", diagram.kind,
             "(reading", "'toSVG')">>))
  ELSE IF diagram.toSVG = "string"
    THEN Exported(Content("toSVG", "html", "", diagram.tree))
  ELSE IF diagram.toSVG \in {"node", "other"}
    THEN Exported(TextContent("toSVG() returned an unexpected value."))
  ELSE IF diagram.toSVG # "absent"
    THEN ExportThrew(Error("Error", <<"toSVG", "failed">>))
  ELSE IF diagram.toString # "absent"
    THEN IF diagram.toString = "string"
           THEN Exported(Content("toString", "html", "", diagram.tree))
           ELSE ExportThrew(Error("Error", <<"toString", "failed">>))
  ELSE IF diagram.addTo # "absent"
    THEN IF diagram.addTo = "attaches"
           THEN Exported(Content("addTo", "node", "", diagram.tree))
           ELSE ExportThrew(Error("Error", <<"addTo", "failed">>))
  ELSE Exported(TextContent(
         "Diagram object does not support toSVG/toString/addTo in this build."))

\* The body of the try block of mountRule (lines 59-74).
Export(diagram) ==
  IF diagram.kind # "object"
    THEN ExportThrew(Error("TypeError",
           <<"Cannot", "read", "properties", "of", diagram.kind,
             "(reading", "'toSVG')">>))
  ELSE IF diagram.toSVG # "absent"
    THEN CASE diagram.toSVG = "string" ->
                Exported(Content("toSVG", "html", "", diagram.tree))
           [] diagram.toSVG = "node" ->
                Exported(Content("toSVG", "node", "", diagram.tree))
           [] diagram.toSVG = "other" ->
                Exported(TextContent("toSVG() returned an unexpected value."))
           [] diagram.toSVG = "throwsError" ->
                ExportThrew(Error("Error", <<"toSVG", "failed">>))
           [] diagram.toSVG = "throwsValue" ->
                ExportThrew(Error("null", <<>>))
  ELSE IF diagram.toString # "absent"
    THEN IF diagram.toString = "string"
           THEN Exported(Content("toString", "html", "", diagram.tree))
           ELSE ExportThrew(Error("Error", <<"toString", "failed">>))
  ELSE IF diagram.addTo # "absent"
    THEN IF diagram.addTo = "attaches"
           THEN Exported(Content("addTo", "node", "", diagram.tree))
           ELSE ExportThrew(Error("Error", <<"addTo", "failed">>))
  ELSE Exported(TextContent(
         "Diagram object does not support toSVG/toString/addTo in this build."))

\* The try/catch of mountRule (lines 57-77): what svgwrap holds after it.
SvgWrap(diagram) ==
  LET r == Export(diagram) IN
  IF r.t = "throw"
    THEN TextContent("Render error: " \o ErrorText(r.e))
    ELSE r.c

\* The number of blocks on the page.
RECURSIVE BlockCount(_, _)
BlockCount(d, cs) ==
  IF cs = {} THEN 0
  ELSE LET c == CHOOSE x \in cs : TRUE
       IN  Len(d[c]) + BlockCount(d, cs \ {c})

\* The block with an id made unique by numbering the blocks of the page.
RuleBlockNumbered(name, content) ==
  [className |-> "rule",
   id |-> "rule-" \o name \o "-" \o ToString(BlockCount(dom, DOMAIN dom)),
   h3 |-> name, svgwrap |-> content]

\* The block of a rule: div.rule#rule-<name> with its h3 and its svgwrap.
RuleBlock(name, content) ==
  [className |-> "rule", id |-> "rule-" \o name, h3 |-> name,
   svgwrap |-> content]

\* The outcome of a render operation: the page after it, whether it
\* returned or threw, and the names whose factory it invoked, in order.
Rendered(d, invoked) ==
  [dom |-> d, t |-> "return", e |-> NoError, invoked |-> invoked]

RenderThrew(d, e, invoked) ==
  [dom |-> d, t |-> "throw", e |-> e, invoked |-> invoked]

\* A container that querySelector did not find is null.
NullElement == "null"

IsElement(d, container) == container \in DOMAIN d

\* The outcome r of the try block without a catch around it.
MountUncaught(d, container, name, r) ==
  IF r.t = "throw" THEN RenderThrew(d, r.e, <<>>)
  ELSE IF IsElement(d, container)
    THEN Rendered([d EXCEPT ![container] = Append(@, RuleBlock(name, r.c))], <<>>)
    ELSE RenderThrew(d, Error("TypeError",
           <<"Cannot", "read", "properties", "of", "null", "(reading",
             "'appendChild')">>), <<>>)

\* mountRule without its try/catch.
mountRuleNoCatch(d, container, name, diagram) ==
  MountUncaught(d, container, name, Export(diagram))

\* mountRule(container, name, diagram) on the page d.
mountRule(d, container, name, diagram) ==
  LET wrap == RuleBlock(name, SvgWrap(diagram)) IN
  IF IsElement(d, container)
    THEN Rendered([d EXCEPT ![container] = Append(@, wrap)], <<>>)
    ELSE RenderThrew(d, Error("TypeError",
           <<"Cannot", "read", "properties", "of", "null", "(reading",
             "'appendChild')">>), <<>>)

\* A factory of the registry: the closure registered for a rule of the
\* grammar, or a function that throws, or one that returns diagram d.
RuleFactory(name) == [kind |-> "rule", name |-> name, d |-> JsUndefined]

ThrowingFactory == [kind |-> "throws", name |-> "", d |-> JsUndefined]

ReturningFactory(d) == [kind |-> "returns", name |-> "", d |-> d]

FactoryReturned(d) == [t |-> "return", d |-> d, e |-> NoError]

FactoryThrew(e) == [t |-> "throw", d |-> JsUndefined, e |-> e]

\* factory()
Invoke(factory) ==
  CASE factory.kind = "rule" ->
         FactoryReturned(DiagramObject(Factory(factory.name)))
    [] factory.kind = "throws" ->
         FactoryThrew(Error("TypeError", <<"items", "is", "not", "iterable">>))
    [] factory.kind = "returns" -> FactoryReturned(factory.d)

\* rules.get(name): the factory, or undefined.
HasFactory(rls, name) == name \in DOMAIN rls

\* Diagram(Comment(`No factory defined for ${name}`))
NoFactoryDiagram(name) ==
  DiagramObject(Diagram(<<Comment("No factory defined for " \o name)>>))

\* mountRule(sectionRoot, name, factory()) with the outcome r of factory():
\* a throw of the factory leaves renderRuleList.
MountInvoked(acc, sectionRoot, name, r) ==
  IF r.t = "throw"
    THEN RenderThrew(acc.dom, r.e, Append(acc.invoked, name))
    ELSE [mountRule(acc.dom, sectionRoot, name, r.d)
            EXCEPT !.invoked = Append(acc.invoked, name)]

\* The iteration passing over a name without factory: nothing is mounted
\* for it.
RenderNameSkipMissing(acc, sectionRoot, rls, name) ==
  IF ~HasFactory(rls, name)
    THEN acc
    ELSE MountInvoked(acc, sectionRoot, name, Invoke(rls[name]))

\* The iteration without the guard for a missing factory: undefined is
\* called.
RenderNameNoGuard(acc, sectionRoot, rls, name) ==
  IF ~HasFactory(rls, name)
    THEN RenderThrew(acc.dom,
           Error("TypeError", <<"factory", "is", "not", "a", "function">>),
           acc.invoked)
    ELSE MountInvoked(acc, sectionRoot, name, Invoke(rls[name]))

\* One iteration of the loop of renderRuleList (lines 85-90), from the
\* outcome acc of the iterations before it.
RenderName(acc, sectionRoot, rls, name) ==
  IF ~HasFactory(rls, name)
    THEN [mountRule(acc.dom, sectionRoot, name, NoFactoryDiagram(name))
            EXCEPT !.invoked = acc.invoked]
    ELSE MountInvoked(acc, sectionRoot, name, Invoke(rls[name]))

RECURSIVE RenderNames(_, _, _, _)
RenderNames(acc, sectionRoot, rls, names) ==
  IF names = <<>> \/ acc.t = "throw" THEN acc
  ELSE RenderNames(RenderName(acc, sectionRoot, rls, Head(names)),
                   sectionRoot, rls, Tail(names))

\* renderRuleList(sectionRoot, rules, names) on the page d.
renderRuleList(d, sectionRoot, rls, names) ==
  RenderNames(Rendered(d, <<>>), sectionRoot, rls, names)

\* ------------------------------------------------------------------------
\* Public render entrypoint (part_000 lines 912-1026)

\* root.querySelector(`[data-section="${name}"]`)
byName(d, name) == IF name \in DOMAIN d THEN name ELSE NullElement

\* The outcome of the sections so far followed by outcome r of the next.
ThenSection(acc, r) == [r EXCEPT !.invoked = acc.invoked \o r.invoked]

RECURSIVE RenderSections(_, _, _)
RenderSections(acc, rls, sections) ==
  IF sections = <<>> \/ acc.t = "throw" THEN acc
  ELSE RenderSections(
         ThenSection(acc, renderRuleList(acc.dom, byName(acc.dom, Head(sections)),
                                         rls, SectionRules(Head(sections)))),
         rls, Tail(sections))

\* renderAllSections(root) on the page d.
renderAllSections(d, rls) ==
  RenderSections(Rendered(d, <<>>), rls, SectionOrder)

\* ------------------------------------------------------------------------
\* The name filter of the App component (App.tsx lines 8-18).  A string is
\* the sequence of its characters.

\* c.toLowerCase(), on the characters of the alphabet used here.
LowerChar(c) ==
  CASE c = "A" -> "a"
    [] c = "D" -> "d"
    [] OTHER -> c

\* s.toLowerCase()
toLowerCase(s) == [i \in DOMAIN s |-> LowerChar(s[i])]

IsSpace(c) == c = " "

\* s.trim(): s without its leading and its trailing white space.
RECURSIVE trimStart(_)
trimStart(s) ==
  IF s # <<>> /\ IsSpace(Head(s)) THEN trimStart(Tail(s)) ELSE s

RECURSIVE trimEnd(_)
trimEnd(s) ==
  IF s # <<>> /\ IsSpace(s[Len(s)])
    THEN trimEnd(SubSeq(s, 1, Len(s) - 1))
    ELSE s

trim(s) == trimEnd(trimStart(s))

\* n.includes(q)
includes(n, q) ==
  \E i \in 0..(Len(n) - Len(q)) : SubSeq(n, i + 1, i + Len(q)) = q

\* names.filter((n) => n.toLowerCase().includes(q))
FilterIncludes(names, q) ==
  SelectSeq(names, LAMBDA n : includes(toLowerCase(n), q))

\* The body of filterNames after q is computed (lines 10-11).
FilterBy(names, q) == IF q = <<>> THEN names ELSE FilterIncludes(names, q)

\* filterNames comparing the names as they are spelt.
filterNamesCaseSensitive(query, names) ==
  IF toLowerCase(trim(query)) = <<>> THEN names
  ELSE SelectSeq(names, LAMBDA n : includes(n, toLowerCase(trim(query))))

\* filterNames(names), with the query of the component's state.
filterNames(query, names) == FilterBy(names, toLowerCase(trim(query)))

\* ------------------------------------------------------------------------
\* What a diagram accepts: the token sequences read along its tracks, as
\* the railroad-diagrams primitives draw them.  A token is a Terminal or a
\* NonTerminal box; a Comment is passed without reading anything.

\* The concatenations of a word of A and a word of B, n tokens at most.
Concat(A, B, n) == {a \o b : <<a, b>> \in {p \in A \X B : Len(p[1]) + Len(p[2]) <= n}}

\* A followed by any number of (Sep A), n tokens at most.
RECURSIVE Repeat(_, _, _, _)
Repeat(acc, Sep, A, n) ==
  IF Concat(Concat(acc, Sep, n), A, n) \subseteq acc THEN acc
  ELSE Repeat(acc \cup Concat(Concat(acc, Sep, n), A, n), Sep, A, n)

RECURSIVE Lang(_, _)
RECURSIVE LangSeq(_, _, _)
\* The words of the children c[i..] read one after the other.
LangSeq(c, i, n) ==
  IF i > Len(c) THEN {<<>>}
  ELSE Concat(Lang(c[i], n), LangSeq(c, i + 1, n), n)

Lang(node, n) ==
  CASE node.k \in {"Terminal", "NonTerminal"} -> IF n >= 1 THEN {<<node>>} ELSE {}
    [] node.k = "Comment" -> {<<>>}
    [] node.k \in {"Diagram", "Sequence", "Stack"} -> LangSeq(node.c, 1, n)
    [] node.k = "Choice" -> UNION {Lang(node.c[i], n) : i \in DOMAIN node.c}
    [] node.k = "Optional" -> {<<>>} \cup Lang(node.c[1], n)
    [] node.k = "OneOrMore" ->
         Repeat(Lang(node.c[1], n),
                IF Len(node.c) > 1 THEN Lang(node.c[2], n) ELSE {<<>>},
                Lang(node.c[1], n), n)
    [] node.k = "ZeroOrMore" ->
         {<<>>} \cup Repeat(Lang(node.c[1], n),
                           IF Len(node.c) > 1 THEN Lang(node.c[2], n) ELSE {<<>>},
                           Lang(node.c[1], n), n)
    [] OTHER -> {}

\* The names the NonTerminal boxes of a diagram refer to.
RECURSIVE NTRefs(_)
NTRefs(node) ==
  IF node.k = "NonTerminal" THEN {node.s}
  ELSE UNION {NTRefs(node.c[i]) : i \in DOMAIN node.c}

\* The texts of the Terminal boxes of a diagram.
RECURSIVE TerminalTexts(_)
TerminalTexts(node) ==
  IF node.k = "Terminal" THEN {node.s}
  ELSE UNION {TerminalTexts(node.c[i]) : i \in DOMAIN node.c}

\* ------------------------------------------------------------------------
\* Bounds and input sets

MaxNames == 2     \* the longest names list handed to renderRuleList
MaxBlocks == 2    \* a render operation starts on at most this many blocks
MaxPasses == 2    \* calls of renderAllSections on one page
MaxArgs == 2      \* the most child arguments handed to callOrNew
MaxQuery == 2     \* the longest query typed into the filter
MaxNameLen == 2   \* the longest name of a filtered list
MaxList == 2      \* the longest list handed to filterNames
MaxOps == 3       \* the longest operator list handed to chain
MaxTokens == 5    \* the longest token sequence tried on a diagram

\* The builds of the library the module may have imported: its primitives
\* are factory functions or classes, and its Diagram objects export toSVG
\* (returning markup or a node) or only toString and addTo.
Builds ==
  [exports : {"function", "class"}, toSVG : {"string", "node", "absent"},
   toString : {"string"}, addTo : {"attaches"}]

\* The names a render operation may be asked for; the last is never
\* registered.
RegistrableNames == {"declarator", "pointer"}

Names == RegistrableNames \cup {"no-such-rule"}

SampleTree == [k |-> "Diagram", s |-> "", n |-> 0, c |-> <<>>]

\* Every diagram value mountRule distinguishes.
Diagrams ==
  {JsNull, JsUndefined} \cup
  {JsValue("object", a, b, c, SampleTree) :
     a \in SvgKinds, b \in ToStringKinds, c \in AddToKinds}

\* The factories registered under name in the generic registry: the rule's
\* own closure, one that throws, and ones that return a broken diagram.
SampleFactories(name) ==
  {RuleFactory(name), ThrowingFactory, ReturningFactory(JsNull),
   ReturningFactory(JsValue("object", "throwsError", "string", "attaches",
                            SampleTree)),
   ReturningFactory(JsValue("object", "absent", "absent", "absent",
                            SampleTree))}

SeqsUpTo(S, n) == UNION {[1..m -> S] : m \in 0..n}

EmptyMap == [name \in {} |-> ThrowingFactory]

EmptyPage == [c \in {} |-> <<>>]

\* The one container of the generic render operations.
ListRoot == "list"

\* No factory: what the record of an operation holds when it registers
\* none.
NoFactory == [kind |-> "none", name |-> "", d |-> JsUndefined]

NoOp ==
  [op |-> "none", container |-> NullElement, names |-> <<>>,
   diagram |-> JsUndefined, before |-> EmptyPage, t |-> "return",
   e |-> NoError, invoked |-> <<>>, factory |-> NoFactory,
   registry |-> EmptyMap]

\* The page and the record after a render operation with outcome r.
Did(op, container, names, diagram, r) ==
  /\ dom' = r.dom
  /\ last' = [op |-> op, container |-> container, names |-> names,
              diagram |-> diagram, before |-> dom, t |-> r.t, e |-> r.e,
              invoked |-> r.invoked, factory |-> NoFactory,
              registry |-> rules]

\* ------------------------------------------------------------------------
\* The state machine

pureVars == <<shim, filt, ch>>

renderVars == <<pc, rules, dom, last>>

IdlePure == shim = 0 /\ filt = 0 /\ ch = 0

IdleRender ==
  /\ pc = "ready"
  /\ rules = EmptyMap
  /\ dom = EmptyPage
  /\ last = NoOp

\* const rules = new Map() (line 96), before any rules.set.
Init ==
  /\ build \in Builds
  /\ pc = "init"
  /\ rules = EmptyMap
  /\ dom = [c \in {ListRoot} |-> <<>>]
  /\ last = NoOp
  /\ IdlePure

\* The record of rules.set(name, factory) on the registry rls: the call
\* returns, and no factory is invoked.
Registered(name, factory, rls) ==
  [NoOp EXCEPT !.op = "rules.set", !.names = <<name>>, !.factory = factory,
               !.registry = rls]

\* rules.set(name, factory) evaluating the factory as it is registered.
RulesSetEager(name, factory) ==
  /\ pc = "init"
  /\ rules' = [n \in DOMAIN rules \cup {name} |->
                 IF n = name THEN factory ELSE rules[n]]
  /\ last' = [Registered(name, factory, rules)
                EXCEPT !.invoked = <<name>>, !.t = Invoke(factory).t]
  /\ UNCHANGED <<build, pc, dom, pureVars>>

\* rules.set(name, factory) keeping the factory a name already has.
RulesSetKeepFirst(name, factory) ==
  /\ pc = "init"
  /\ rules' = [n \in DOMAIN rules \cup {name} |->
                 IF n \in DOMAIN rules THEN rules[n] ELSE factory]
  /\ last' = Registered(name, factory, rules)
  /\ UNCHANGED <<build, pc, dom, pureVars>>

\* rules.set(name, factory): the last writer wins.
RulesSet(name, factory) ==
  /\ pc = "init"
  /\ rules' = [n \in DOMAIN rules \cup {name} |->
                 IF n = name THEN factory ELSE rules[n]]
  /\ last' = Registered(name, factory, rules)
  /\ UNCHANGED <<build, pc, dom, pureVars>>

\* The module body has run: the registry is built.
Loaded ==
  /\ pc = "init"
  /\ pc' = "ready"
  /\ UNCHANGED <<build, rules, dom, last, pureVars>>

MountRuleOp(name, diagram) ==
  /\ pc = "ready"
  /\ Len(dom[ListRoot]) < MaxBlocks
  /\ Did("mountRule", ListRoot, <<name>>, diagram,
         mountRule(dom, ListRoot, name, diagram))
  /\ UNCHANGED <<build, pc, rules, pureVars>>

\* renderRuleList registering the placeholder of each missing name it meets.
RenderRuleListOpCaching(names) ==
  /\ pc = "ready"
  /\ Len(dom[ListRoot]) < MaxBlocks
  /\ Did("renderRuleList", ListRoot, names, JsUndefined,
         renderRuleList(dom, ListRoot, rules, names))
  /\ rules' = [n \in DOMAIN rules \cup {names[i] : i \in DOMAIN names} |->
                 IF n \in DOMAIN rules THEN rules[n]
                 ELSE ReturningFactory(NoFactoryDiagram(n))]
  /\ UNCHANGED <<build, pc, pureVars>>

RenderRuleListOp(names) ==
  /\ pc = "ready"
  /\ Len(dom[ListRoot]) < MaxBlocks
  /\ Did("renderRuleList", ListRoot, names, JsUndefined,
         renderRuleList(dom, ListRoot, rules, names))
  /\ UNCHANGED <<build, pc, rules, pureVars>>

Next ==
  \/ \E name \in RegistrableNames :
       \E factory \in SampleFactories(name) : RulesSet(name, factory)
  \/ Loaded
  \/ \E names \in SeqsUpTo(Names, MaxNames) : RenderRuleListOp(names)

Spec == Init /\ [][Next]_vars

\* mountRule alone, on every diagram value, with an empty registry.
InitMount ==
  /\ build = [exports |-> "class", toSVG |-> "string", toString |-> "string",
              addTo |-> "attaches"]
  /\ pc = "ready"
  /\ rules = EmptyMap
  /\ dom = [c \in {ListRoot} |-> <<>>]
  /\ last = NoOp
  /\ IdlePure

NextMount ==
  \E name \in RegistrableNames : \E diagram \in Diagrams :
    MountRuleOp(name, diagram)

SpecMount == InitMount /\ [][NextMount]_vars

\* The module as it is: the registrations of lines 100-908 in their order,
\* then renderAllSections on a page holding some of the section containers.
RulesSetNext ==
  /\ Cardinality(DOMAIN rules) < Len(RuleNames)
  /\ LET name == RuleNames[Cardinality(DOMAIN rules) + 1]
     IN  RulesSet(name, RuleFactory(name))

ModuleLoaded(sections) ==
  /\ pc = "init"
  /\ Cardinality(DOMAIN rules) = Len(RuleNames)
  /\ pc' = "ready"
  /\ dom' = [s \in sections |-> <<>>]
  /\ UNCHANGED <<build, rules, last, pureVars>>

RenderAllSectionsOp ==
  /\ pc = "ready"
  /\ \A s \in DOMAIN dom : Len(dom[s]) < MaxPasses * Len(SectionRules(s))
  /\ Did("renderAllSections", "root", <<>>, JsUndefined,
         renderAllSections(dom, rules))
  /\ UNCHANGED <<build, pc, rules, pureVars>>

SectionIds == {SectionOrder[i] : i \in DOMAIN SectionOrder}

InitRef ==
  /\ build \in Builds
  /\ pc = "init"
  /\ rules = EmptyMap
  /\ dom = EmptyPage
  /\ last = NoOp
  /\ IdlePure

NextRef ==
  \/ RulesSetNext
  \/ \E sections \in SUBSET SectionIds : ModuleLoaded(sections)
  \/ RenderAllSectionsOp

SpecRef == InitRef /\ [][NextRef]_vars

\* One name rendered twice, into two fresh containers of the same page,
\* with the registry as the registrations left it.
FirstRoot == "first"

SecondRoot == "second"

InitTwice ==
  /\ build \in Builds
  /\ pc = "init"
  /\ rules = EmptyMap
  /\ dom = [c \in {FirstRoot, SecondRoot} |-> <<>>]
  /\ last = NoOp
  /\ IdlePure

RenderFirstOp(name) ==
  /\ pc = "ready"
  /\ last.op # "renderRuleList"
  /\ Did("renderRuleList", FirstRoot, <<name>>, JsUndefined,
         renderRuleList(dom, FirstRoot, rules, <<name>>))
  /\ UNCHANGED <<build, pc, rules, pureVars>>

RenderSecondOp ==
  /\ pc = "ready"
  /\ last.op = "renderRuleList"
  /\ last.container = FirstRoot
  /\ Did("renderRuleList", SecondRoot, last.names, JsUndefined,
         renderRuleList(dom, SecondRoot, rules, last.names))
  /\ UNCHANGED <<build, pc, rules, pureVars>>

NextTwice ==
  \/ \E name \in RegistrableNames :
       \E factory \in SampleFactories(name) : RulesSet(name, factory)
  \/ Loaded
  \/ \E name \in Names : RenderFirstOp(name)
  \/ RenderSecondOp

SpecTwice == InitTwice /\ [][NextTwice]_vars

\* callOrNew alone, on every kind of export.
ShimCtors == [k : {"Terminal", "Sequence"}, call : CallKinds, new : ConstructKinds]

ShimLeaves == {RRNode("Terminal", Args("int", 0, <<>>)),
               RRNode("NonTerminal", Args("declarator", 0, <<>>))}

ShimArgs ==
  {Args(s, 0, <<>>) : s \in {"int", "declarator"}} \cup
  {Args("", 0, c) : c \in SeqsUpTo(ShimLeaves, MaxArgs)}

InitShim ==
  /\ build = [exports |-> "class", toSVG |-> "string", toString |-> "string",
              addTo |-> "attaches"]
  /\ IdleRender
  /\ shim \in [Ctor : ShimCtors, args : ShimArgs, done : {FALSE},
                r : {Return(NoNode)}]
  /\ filt = 0
  /\ ch = 0

CallOrNewOp ==
  /\ ~shim.done
  /\ shim' = [shim EXCEPT !.done = TRUE, !.r = callOrNew(shim.Ctor, shim.args)]
  /\ UNCHANGED <<build, renderVars, filt, ch>>

NextShim == CallOrNewOp

SpecShim == InitShim /\ [][NextShim]_vars

\* filterNames alone, on every query and every list within the bounds.
QueryChars == {"a", "d", "D", " "}

NameChars == {"a", "D"}

FilterableNames == UNION {[1..m -> NameChars] : m \in 1..MaxNameLen}

InitFilter ==
  /\ build = [exports |-> "class", toSVG |-> "string", toString |-> "string",
              addTo |-> "attaches"]
  /\ IdleRender
  /\ shim = 0
  /\ filt \in [query : SeqsUpTo(QueryChars, MaxQuery),
                names : SeqsUpTo(FilterableNames, MaxList),
                done : {FALSE}, result : {<<>>}]
  /\ ch = 0

FilterNamesOp ==
  /\ ~filt.done
  /\ filt' = [filt EXCEPT !.done = TRUE,
                          !.result = filterNames(filt.query, filt.names)]
  /\ UNCHANGED <<build, renderVars, shim, ch>>

NextFilter == FilterNamesOp

SpecFilter == InitFilter /\ [][NextFilter]_vars

\* chain alone, on every operand and every operator list within the bounds.
ChainBases == {"cast-expression", "*"}

ChainOps == {"*", "/", "%"}

InitChain ==
  /\ build \in Builds
  /\ IdleRender
  /\ shim = 0
  /\ filt = 0
  /\ ch \in [base : ChainBases,
              ops : SeqsUpTo(ChainOps, MaxOps) \ {<<>>},
              done : {FALSE}, tree : {NoNode}]

ChainOp ==
  /\ ~ch.done
  /\ ch' = [ch EXCEPT !.done = TRUE, !.tree = chain(ch.base, ch.ops)]
  /\ UNCHANGED <<build, renderVars, shim, filt>>

NextChain == ChainOp

SpecChain == InitChain /\ [][NextChain]_vars

\* ------------------------------------------------------------------------
\* Properties of the render operations

ListBefore == last.before[ListRoot]

ListNow == dom[ListRoot]

\* The blocks the last operation appended to the list container.
Appended == SubSeq(ListNow, Len(ListBefore) + 1, Len(ListNow))

\* The last operation left the blocks it found in place.
KeptBefore == SubSeq(ListNow, 1, Len(ListBefore)) = ListBefore

\* names[i] has its block: the i-th appended, titled with the name.
Mounted(i) ==
  /\ i <= Len(Appended)
  /\ Appended[i].h3 = last.names[i]
  /\ Appended[i].id = "rule-" \o last.names[i]

IsRenderError(content) ==
  /\ content.form = "text"
  /\ Len(content.text) >= 14
  /\ \E rest \in {"null", "toSVG failed", "toString failed", "addTo failed",
                   "Cannot read properties of null (reading 'toSVG')",
                   "Cannot read properties of undefined (reading 'toSVG')"} :
       content.text = "Render error: " \o rest

\* The export of an object that returns something mountRule can show.
ToSVGSucceeds(d) == d.kind = "object" /\ d.toSVG \in {"string", "node"}

ToStringSucceeds(d) == d.kind = "object" /\ d.toString = "string"

AddToSucceeds(d) == d.kind = "object" /\ d.addTo = "attaches"

\* C1 (as claimed): a render pass over a names list mounts the block of
\* every name of the list and does not abort, whatever fails for one name:
\* its factory throwing, or the export of its diagram throwing.
C1_FailuresIsolated ==
  last.op = "renderRuleList" =>
    /\ last.t = "return"
    /\ Len(Appended) = Len(last.names)
    /\ \A i \in DOMAIN last.names : Mounted(i)

\* C2 (as claimed): mountRule shows the result of the first export, in the
\* order toSVG, toString, addTo, that succeeds, and shows the inline error
\* message only if every one of them has failed.
C2_FirstSuccessWins ==
  (last.op = "mountRule" /\ last.diagram.kind = "object"
     /\ last.diagram.toSVG # "other") =>
    LET d == last.diagram
        c == Appended[1].svgwrap
    IN  /\ ToSVGSucceeds(d) => c.via = "toSVG"
        /\ (~ToSVGSucceeds(d) /\ ToStringSucceeds(d)) => c.via = "toString"
        /\ (~ToSVGSucceeds(d) /\ ~ToStringSucceeds(d) /\ AddToSucceeds(d))
             => c.via = "addTo"
        /\ IsRenderError(c) =>
             ~(ToSVGSucceeds(d) \/ ToStringSucceeds(d) \/ AddToSucceeds(d))

\* The export mountRule picks: the first one the diagram provides.
Picked(d) ==
  IF d.toSVG # "absent" THEN "toSVG"
  ELSE IF d.toString # "absent" THEN "toString"
  ELSE IF d.addTo # "absent" THEN "addTo"
  ELSE "none"

PickedThrows(d) ==
  \/ Picked(d) = "toSVG" /\ d.toSVG \in {"throwsError", "throwsValue"}
  \/ Picked(d) = "toString" /\ d.toString = "throws"
  \/ Picked(d) = "addTo" /\ d.addTo = "throws"

PickedSucceeds(d) ==
  \/ Picked(d) = "toSVG" /\ ToSVGSucceeds(d)
  \/ Picked(d) = "toString" /\ ToStringSucceeds(d)
  \/ Picked(d) = "addTo" /\ AddToSucceeds(d)

\* C2 (amended): mountRule picks the first export the diagram provides, in
\* the order toSVG, toString, addTo, and tries that one only: its result is
\* shown when it returns one, and when it throws no other export is tried
\* and the inline error message is shown, whatever the later exports would
\* have done.
C2_FirstPresentOnly ==
  (last.op = "mountRule" /\ last.diagram.kind = "object") =>
    LET d == last.diagram
        c == Appended[1].svgwrap
    IN  /\ PickedSucceeds(d) => c.via = Picked(d) /\ c.tree = d.tree
        /\ PickedThrows(d) <=> IsRenderError(c)
        /\ ~PickedSucceeds(d) => c.via = "none" /\ c.form = "text"

\* A later export would have worked, the picked one threw, and the block
\* shows the error message.
C2_Witness ==
  /\ last.op = "mountRule"
  /\ last.diagram.toSVG = "throwsError"
  /\ last.diagram.toString = "string"
  /\ IsRenderError(Appended[1].svgwrap)

\* A diagram mountRule cannot draw: null, undefined, an object without any
\* export, one whose toSVG returns neither markup nor a node, or one whose
\* picked export throws.
Malformed(d) ==
  \/ d.kind # "object"
  \/ Picked(d) = "none"
  \/ d.toSVG = "other"
  \/ PickedThrows(d)

\* C3: mountRule does not throw on any diagram value and appends the block
\* of the rule after the blocks already there; for a malformed diagram the
\* block shows a non-empty text in place of the graphic.
C3_MountNeverThrows ==
  last.op = "mountRule" =>
    /\ last.t = "return"
    /\ KeptBefore
    /\ Len(Appended) = 1
    /\ Mounted(1)
    /\ Malformed(last.diagram) =>
         /\ Appended[1].svgwrap.form = "text"
         /\ Appended[1].svgwrap.text # ""

C3_Witness ==
  /\ last.op = "mountRule"
  /\ last.diagram.kind = "null"
  /\ Len(ListBefore) = 1
  /\ Appended[1].svgwrap.form = "text"

\* The block mounted for a name without factory: a Diagram holding the one
\* Comment that says so.
IsNoFactoryBlock(block, name) ==
  /\ block.h3 = name
  /\ block.svgwrap.form # "text"
  /\ block.svgwrap.tree.k = "Diagram"
  /\ Len(block.svgwrap.tree.c) = 1
  /\ block.svgwrap.tree.c[1].k = "Comment"
  /\ block.svgwrap.tree.c[1].s = "No factory defined for " \o name

\* C4: a name without entry in the registry does not make renderRuleList
\* throw: its block shows the placeholder that names it, no factory is
\* invoked for it, and the pass goes on with the next name (a pass ends
\* early only at a registered name).
C4_MissingRulePlaceholder ==
  last.op = "renderRuleList" =>
    /\ \A i \in 1..Len(Appended) :
         ~HasFactory(rules, last.names[i]) =>
           IsNoFactoryBlock(Appended[i], last.names[i])
    /\ \A i \in DOMAIN last.invoked : HasFactory(rules, last.invoked[i])
    /\ last.t = "return" => Len(Appended) = Len(last.names)
    /\ last.t = "throw" =>
         /\ Len(Appended) < Len(last.names)
         /\ HasFactory(rules, last.names[Len(Appended) + 1])

C4_Witness ==
  /\ last.op = "renderRuleList"
  /\ last.names = <<"no-such-rule", "pointer">>
  /\ last.t = "return"
  /\ IsNoFactoryBlock(Appended[1], "no-such-rule")
  /\ Appended[2].h3 = "pointer"
  /\ last.invoked = <<"pointer">>

\* ------------------------------------------------------------------------
\* Properties of the reference data

AllBlocks == UNION {{dom[c][i] : i \in DOMAIN dom[c]} : c \in DOMAIN dom}

\* C5: once the module is loaded, every name of every section list handed
\* to renderRuleList by renderAllSections is a key of the registry, so no
\* block of a pass is the placeholder of a name without factory.
C5_NoOrphanedSectionEntries ==
  pc = "ready" =>
    /\ \A s \in SectionIds : \A i \in DOMAIN SectionRules(s) :
         HasFactory(rules, SectionRules(s)[i])
    /\ \A b \in AllBlocks : ~IsNoFactoryBlock(b, b.h3)

C5_Witness ==
  /\ last.op = "renderAllSections"
  /\ last.t = "return"
  /\ DOMAIN dom = SectionIds
  /\ \A s \in SectionIds : Len(dom[s]) = Len(SectionRules(s))

FreshPage == [c \in {ListRoot} |-> <<>>]

\* The outcome r of rendering one rule into a fresh container shows its
\* diagram with a box for every reference of refs.
DrawsReferences(r, refs) ==
  /\ r.t = "return"
  /\ Len(r.dom[ListRoot]) = 1
  /\ r.dom[ListRoot][1].svgwrap.form # "text"
  /\ refs \subseteq NTRefs(r.dom[ListRoot][1].svgwrap.tree)

Unregistered(refs) == {ref \in refs : ~HasFactory(rules, ref)}

\* C6: NT(name) never looks the name up.  For every registered rule, each
\* reference of its diagram names a key of the registry, or the rule still
\* renders without throwing and shows the reference as a box labelled with
\* the name; a pass of renderAllSections throws only for a section
\* container that the page lacks, never for a reference.
C6_ReferencesNeverFail ==
  pc = "ready" =>
    /\ \A name \in DOMAIN rules :
         \/ Unregistered(NTRefs(Factory(name))) = {}
         \/ DrawsReferences(renderRuleList(FreshPage, ListRoot, rules, <<name>>),
                            Unregistered(NTRefs(Factory(name))))
    /\ (last.op = "renderAllSections" /\ last.t = "throw")
         => DOMAIN last.before # SectionIds

C6_Witness ==
  /\ last.op = "renderAllSections"
  /\ last.t = "return"
  /\ ~HasFactory(rules, "keyword")
  /\ dom["lexical"][1].h3 = "token"
  /\ dom["lexical"][1].svgwrap.form # "text"
  /\ "keyword" \in NTRefs(dom["lexical"][1].svgwrap.tree)

\* ------------------------------------------------------------------------
\* Properties of the builder shim

\* C7: callOrNew returns what the plain call returns, without constructing;
\* when the plain call fails because the export is a class, it gives what
\* new gives; when the plain call fails for another reason, it rethrows
\* that error and never constructs.
C7_CallOrNew ==
  shim.done =>
    IF shim.Ctor.call = "class"
      THEN /\ shim.r = Construct(shim.Ctor, shim.args)
           /\ shim.r.news = 1
      ELSE /\ shim.r = PlainCall(shim.Ctor, shim.args)
           /\ shim.r.news = 0
           /\ shim.Ctor.call = "returns" <=> shim.r.t = "return"

C7_Witness ==
  /\ shim.done
  /\ shim.Ctor.call = "class"
  /\ shim.r.t = "return"
  /\ shim.r.v = RRNode(shim.Ctor.k, shim.args)
  /\ shim.r.news = 1

\* ------------------------------------------------------------------------
\* Properties of the name filter

\* n contains q, letters compared without regard to case.
ContainsIgnoringCase(n, q) ==
  \E i \in 0..(Len(n) - Len(q)) :
    \A j \in 1..Len(q) : LowerChar(n[i + j]) = LowerChar(q[j])

\* result is names reduced to the positions idx, order and repeats kept.
IsSelection(result, names, idx) ==
  /\ Len(result) = Cardinality(idx)
  /\ \A i \in idx : result[Cardinality({j \in idx : j <= i})] = names[i]

Matching(names, q) == {i \in DOMAIN names : ContainsIgnoringCase(names[i], q)}

\* q from its first to its last character that is not white space.
Core(q) ==
  LET inked == {i \in DOMAIN q : ~IsSpace(q[i])} IN
  IF inked = {} THEN <<>>
  ELSE SubSeq(q, CHOOSE i \in inked : \A j \in inked : i <= j,
                 CHOOSE i \in inked : \A j \in inked : i >= j)

\* C8 (as claimed): for every query and every list, the filter returns
\* exactly the names that contain the query, compared case-insensitively,
\* in their order.
C8_ExactSubstringFilter ==
  filt.done => IsSelection(filt.result, filt.names, Matching(filt.names, filt.query))

\* C8 (amended): the filter returns exactly the names that contain the
\* query with its leading and trailing white space removed, compared
\* case-insensitively, in their order and with no name added or repeated.
C8_TrimmedSubstringFilter ==
  filt.done =>
    IsSelection(filt.result, filt.names, Matching(filt.names, Core(filt.query)))

C8_Witness ==
  /\ filt.done
  /\ filt.query = <<" ", "d">>
  /\ filt.names = << <<"a">>, <<"a", "D">> >>
  /\ filt.result = << <<"a", "D">> >>

\* ------------------------------------------------------------------------
\* Properties of the precedence chain

NTToken(name) == RRNode("NonTerminal", Args(name, 0, <<>>))

TToken(text) == RRNode("Terminal", Args(text, 0, <<>>))

\* The token sequences X (op X)* of n tokens at most: an operand at every
\* odd place, one of the operators at every even place, an odd length.
ChainWords(base, ops, n) ==
  UNION {{w \in [1..m -> {NTToken(base)} \cup {TToken(o) : o \in ops}] :
            /\ m % 2 = 1
            /\ \A i \in 1..m : (i % 2 = 1) <=> (w[i] = NTToken(base))} :
         m \in 0..n}

Range(f) == {f[i] : i \in DOMAIN f}

\* C9: the structure chain(X, ops) builds accepts exactly the sequences
\* X (op X)* with each op in ops: none that starts or ends with an operator
\* or holds two operands or two operators side by side.
C9_PrecedenceChain ==
  ch.done =>
    Lang(ch.tree, MaxTokens) = ChainWords(ch.base, Range(ch.ops), MaxTokens)

C9_Witness ==
  /\ ch.done
  /\ ch.base = "cast-expression"
  /\ ch.ops = <<"*", "/">>
  /\ <<NTToken("cast-expression"), TToken("*"), NTToken("cast-expression"),
       TToken("/"), NTToken("cast-expression")>> \in Lang(ch.tree, MaxTokens)
  /\ <<TToken("*"), NTToken("cast-expression")>> \notin Lang(ch.tree, MaxTokens)

\* The diagram shown for multiplicative-expression: cast-expression at
\* every operand place, and the operators *, / and %, no other.
IsMultiplicative(content) ==
  /\ content.form # "text"
  /\ NTRefs(content.tree) = {"cast-expression"}
  /\ TerminalTexts(content.tree) = {"*", "/", "%"}
  /\ Lang(content.tree, MaxTokens)
       = ChainWords("cast-expression", {"*", "/", "%"}, MaxTokens)

\* C10: the rule multiplicative-expression renders as the chain of operand
\* cast-expression with exactly the operators *, / and %.
C10_MultiplicativeExpression ==
  \A b \in AllBlocks :
    b.h3 = "multiplicative-expression" => IsMultiplicative(b.svgwrap)

C10_Witness ==
  /\ "expressions" \in DOMAIN dom
  /\ Len(dom["expressions"]) >= 9
  /\ dom["expressions"][9].h3 = "multiplicative-expression"
  /\ IsMultiplicative(dom["expressions"][9].svgwrap)
\* ------------------------------------------------------------------------
\* Properties of the render operations on several containers

HoldsOnePass(c, names) ==
  /\ Len(dom[c]) = Len(names)
  /\ \A i \in DOMAIN names : dom[c][i].h3 = names[i]

\* C12 (as claimed): a render pass replaces the previous one: after any
\* number of completed passes of renderAllSections over the same page, each
\* section container holds exactly the blocks of the most recent pass, one
\* per name of its section, and no block of an earlier pass.
C12_PassReplacesPrevious ==
  (last.op = "renderAllSections" /\ last.t = "return") =>
    \A s \in DOMAIN dom : HoldsOnePass(s, SectionRules(s))

\* ------------------------------------------------------------------------
\* Properties of the registry

\* C13: rules.set under a name, registered before or not, returns
\* normally; afterwards the name maps to the factory just registered, the
\* registry has that one entry for it, and every other entry is as it was.
C13_LastWriterWins ==
  last.op = "rules.set" =>
    LET name == last.names[1] IN
    /\ last.t = "return"
    /\ DOMAIN rules = DOMAIN last.registry \cup {name}
    /\ rules[name] = last.factory
    /\ \A n \in DOMAIN last.registry \ {name} : rules[n] = last.registry[n]

\* A name registered again, with another factory than it had.
C13_Witness ==
  /\ last.op = "rules.set"
  /\ last.names = <<"declarator">>
  /\ "declarator" \in DOMAIN last.registry
  /\ last.registry["declarator"] = RuleFactory("declarator")
  /\ last.factory = ThrowingFactory
  /\ rules["declarator"] = ThrowingFactory
  /\ "pointer" \in DOMAIN rules

\* C14: once the module is loaded no step changes the registry: a render
\* operation that succeeds, that renders a placeholder or that throws
\* leaves the keys and the factory of each key as they were.
C14_RegistryReadOnly == [][pc = "ready" => rules' = rules]_vars

\* After an earlier pass, a pass that met a missing name and then a factory
\* that threw; the registry is the one the pass started with.
C14_Witness ==
  /\ last.op = "renderRuleList"
  /\ last.names = <<"no-such-rule", "declarator">>
  /\ last.t = "throw"
  /\ Len(ListBefore) = 1
  /\ Len(Appended) = 1
  /\ rules = last.registry
  /\ DOMAIN rules = {"declarator"}

\* The names a pass of renderRuleList reached: all of them when it
\* returned, and those up to the one it threw at otherwise.
Reached ==
  IF last.t = "return" THEN last.names
  ELSE SubSeq(last.names, 1, Len(Appended) + 1)

\* C15: a registration invokes no factory and returns, also for a rule that
\* refers to a name not registered yet; a pass of renderRuleList invokes
\* the factory of each registered name it reaches, once per occurrence and
\* in the order of the list, and no other factory.
C15_LazyFactories ==
  /\ last.op = "rules.set" => (last.invoked = <<>> /\ last.t = "return")
  /\ last.op = "renderRuleList" =>
       last.invoked = SelectSeq(Reached, LAMBDA n : HasFactory(rules, n))

\* declarator, whose diagram refers to pointer, was registered while pointer
\* never was; a pass over the name twice invoked its factory twice and drew
\* the reference both times.
C15_Witness ==
  /\ last.op = "renderRuleList"
  /\ last.names = <<"declarator", "declarator">>
  /\ DOMAIN rules = {"declarator"}
  /\ rules["declarator"] = RuleFactory("declarator")
  /\ last.invoked = <<"declarator", "declarator">>
  /\ Len(Appended) = 2
  /\ \A i \in 1..2 : /\ Appended[i].svgwrap.form # "text"
                      /\ "pointer" \in NTRefs(Appended[i].svgwrap.tree)

\* ------------------------------------------------------------------------
\* Properties of the sections

\* The places of name in the section lists of renderAllSections.
Occurrences(name) ==
  UNION {{<<s, i>> : i \in {j \in DOMAIN SectionRules(s) :
                                SectionRules(s)[j] = name}} :
         s \in SectionIds}

\* C16 (as claimed): once the module is loaded, every name of the registry
\* is in the list of exactly one section, once: in at least one section, in
\* no two sections, and in no section twice.
C16_SectionsPartitionRules ==
  pc = "ready" =>
    \A name \in DOMAIN rules : Cardinality(Occurrences(name)) = 1

\* ------------------------------------------------------------------------
\* Properties of the blocks of a pass

\* No name of the last pass is registered with a factory that throws.
NoFactoryThrows ==
  \A i \in DOMAIN last.names :
    HasFactory(rules, last.names[i]) =>
      Invoke(rules[last.names[i]]).t = "return"

\* C17: when no factory throws, renderRuleList over n names returns having
\* appended exactly n blocks after the children the container had, the
\* i-th of class rule, titled with the i-th name and with the id
\* rule-<name>, whether the name was found, was missing or its diagram
\* failed to export; no other container of the page is touched.
C17_OneBlockPerName ==
  (last.op = "renderRuleList" /\ NoFactoryThrows) =>
    /\ last.t = "return"
    /\ KeptBefore
    /\ Len(Appended) = Len(last.names)
    /\ \A i \in DOMAIN last.names :
         /\ Mounted(i)
         /\ Appended[i].className = "rule"
    /\ DOMAIN dom = DOMAIN last.before

\* After the block of a found name, a pass over a missing name and a name
\* whose diagram fails to export: the placeholder and the error message.
C17_Witness ==
  /\ last.op = "renderRuleList"
  /\ last.names = <<"no-such-rule", "declarator">>
  /\ HasFactory(rules, "declarator")
  /\ rules["declarator"].kind = "returns"
  /\ Len(ListBefore) = 1
  /\ ListBefore[1].svgwrap.form # "text"
  /\ Len(Appended) = 2
  /\ IsNoFactoryBlock(Appended[1], "no-such-rule")
  /\ Appended[2].h3 = "declarator"
  /\ IsRenderError(Appended[2].svgwrap)

\* C18 (as claimed): renderAllSections returns for every page, also one
\* that lacks the container of a section, and every section whose
\* container the page has got the blocks of its names appended.
C18_NeverFatal ==
  last.op = "renderAllSections" =>
    /\ last.t = "return"
    /\ \A s \in DOMAIN dom :
         Len(dom[s]) = Len(last.before[s]) + Len(SectionRules(s))
====
